---- MODULE Spec2Model ----
(***************************************************************************)
(* Process supervisor (ServerManager, main.py), session manager            *)
(* (MCPClient, mcp_client.py) and the route-change rebind logic            *)
(* (update_mcp_client / route_change, main.py) of you-are-agent.           *)
(*                                                                         *)
(* The program runs on one asyncio event loop: a coroutine runs atomically *)
(* from one await to the next, so every action below is one such segment.  *)
(* A sleeping coroutine becomes runnable once its wake time has passed;    *)
(* which runnable coroutine goes next is left open.                        *)
(***************************************************************************)
EXTENDS Integers, Sequences, FiniteSets, TLC

(* ------------------------------ bounds -------------------------------- *)
MaxProcs == 2        \* child processes that can be spawned in one run
MaxConns == 2        \* connections the session manager can hold or refer to at one time

(* ------------------------- program constants -------------------------- *)
min_restart_interval == 5   \* main.py:27
grace_period == 3           \* main.py:132  asyncio.sleep(3)
settle_delay == 1           \* main.py:204, main.py:234  asyncio.sleep(1)
check_interval == 30        \* main.py:318  asyncio.sleep(30)
None == 0                   \* Python None in a slot that otherwise holds a pid / a session

Keys == {"internal_mock", "srv1"}
Pids == 1..MaxProcs
\* "a": an event handler calling start, stop, restart and stop_all (on_disconnect);
\* "b": the background task running reconciliation passes (server_check_loop), which start too
Callers == {"a", "b"}
Handlers == {"a"}
Reconcilers == {"b"}
PopenResults == {"ok", "FileNotFoundError", "Exception"}
\* how stop_server's try block goes for a live process: it exits within the timeout; the
\* timeout expires and kill() ends it; terminate() raises; the timeout expires and the
\* forced termination (kill / taskkill / the wait after it) raises
StopPaths == {"graceful", "forced", "terminate_error", "kill_error"}

VARIABLES
    enabled,                   \* config["internal_mock_config"]["enabled"]
    mcpServers,                \* keys of config["mcpServers"]
    server_processes,          \* ServerManager.server_processes: dict key -> Popen | None
    last_start_attempt_times,  \* ServerManager.last_start_attempt_times: dict key -> time, each
                               \* time t kept as its age time.time() - t, cut off at min_restart_interval
    procs,                     \* the child processes: pid -> [state, key]
    calls,                     \* the coroutines running ServerManager methods
    ev,                        \* what the last step did (history)
    lastLaunch,                \* key -> age of the last Popen call, cut off alike; -1: none (history)
    passDone,                  \* a pass completed and the config was not changed since (history)
    recent                     \* the latest start_server call that found no live process, while no
                               \* other operation and no change of the config has followed it (history)

supVars == <<enabled, mcpServers, server_processes, last_start_attempt_times,
             procs, calls, ev, lastLaunch, passDone, recent>>

VARIABLES
    active_server_key,             \* config["active_server_key"]
    session,                       \* MCPClient.session: the connection the ClientSession runs on
    server_type,                   \* MCPClient.server_type
    server_command_or_server_url,  \* MCPClient.server_command_or_server_url
    stdio_server_key,              \* MCPClient.stdio_server_key
    exit_stack,                    \* MCPClient.exit_stack: the entered contexts, the last on top
    conns,                         \* the underlying connections: id -> [state, type, addr, init]
    cl,                            \* the coroutines running MCPClient methods and update_mcp_client
    cev,                           \* what the last step of the session manager did (history)
    cdone                          \* the latest completed MCPClient operation, while no other one
                                   \* has been started since (history)

\* the fields of the MCPClient object and the connections they refer to
mcpState == <<session, server_type, server_command_or_server_url, stdio_server_key, exit_stack, conns>>

clientVars == <<active_server_key, mcpState, cl, cev, cdone>>

VARIABLES
    loop,                          \* the server_check_loop task: in a pass, or asleep between two
    disconnect                     \* how far on_disconnect has got (history)

VARIABLES
    config_file,                   \* the content of config.json
    default_config,                \* ConfigManager.default_config
    got                            \* what the last load_config call returned (history)

cfgVars == <<config_file, default_config, got>>

hostVars == <<loop, disconnect, cfgVars>>

vars == <<supVars, clientVars, hostVars>>

(* ----------------------------- processes ------------------------------ *)
\* Popen.poll() is None: the child has not exited
Alive(p) == p \in Pids /\ procs[p].state = "alive"

HasUnborn == \E p \in Pids : procs[p].state = "unborn"
NewPid == CHOOSE p \in Pids : procs[p].state = "unborn" /\ \A q \in Pids : q < p => procs[q].state /= "unborn"

LiveProcs(k) == {p \in Pids : procs[p].state = "alive" /\ procs[p].key = k}

(* --------------------------- dict accessors --------------------------- *)
\* self.server_processes.get(server_key)
GetProcess(k) == IF k \in DOMAIN server_processes THEN server_processes[k] ELSE None

\* time.time() - self.last_start_attempt_times.get(server_key, 0), cut off at
\* min_restart_interval: with no entry the difference is the whole time since 1970
SinceLastAttempt(k) == IF k \in DOMAIN last_start_attempt_times THEN last_start_attempt_times[k]
                       ELSE min_restart_interval

\* d[k] = v on a Python dict
DictSet(d, k, v) == [x \in DOMAIN d \cup {k} |-> IF x = k THEN v ELSE d[x]]

(* ------------------------ ServerManager queries ----------------------- *)
\* is_running(server_key)
is_running(k) == IF k /= "internal_mock" THEN TRUE ELSE GetProcess(k) /= None /\ Alive(GetProcess(k))

\* fault variant: every entry that holds a process is listed, without poll()
get_running_servers_unpolled == {k \in DOMAIN server_processes : server_processes[k] /= None}

\* get_running_servers()
get_running_servers == {k \in DOMAIN server_processes : server_processes[k] /= None /\ Alive(server_processes[k])}

\* stop_server's guard: process and process.poll() is None
HasLiveHandle(k) == GetProcess(k) /= None /\ Alive(GetProcess(k))

(* ------------------------------ history ------------------------------- *)
\* the record of a step that is no ServerManager operation
NoEv == [kind |-> "none", path |-> "none", key |-> "none", ctx |-> "none", popen |-> "none",
         out |-> "none", proc |-> None, preLive |-> FALSE, preEnabled |-> FALSE,
         preThrottled |-> FALSE, gapOK |-> TRUE, after |-> "none", firstSpawned |-> 0,
         firstAlive |-> FALSE, stops |-> {}, starts |-> {}, afterPass |-> FALSE, inSync |-> FALSE,
         mustStart |-> FALSE, passSpawned |-> 0, stopped |-> FALSE]

NoRecent == [key |-> "none", proc |-> None, phase |-> "none"]

\* a caller that is running no ServerManager method
Idle == [op |-> "none", key |-> "none", pc |-> "idle", sleep |-> 0, process |-> None,
         start_tasks |-> {}, stop_tasks |-> {}, mustStart |-> FALSE, spawned |-> 0,
         stopped |-> FALSE, stoppedProc |-> None]

(* ------------------------ the tasks of main() ------------------------- *)
\* no server_check_loop task is running (ServerManager driven by its callers alone)
LoopOff == [pc |-> "off", sleep |-> 0, last |-> "none"]

\* line 549: the task has been created and will run its first pass
LoopCreated == [pc |-> "sleep", sleep |-> 0, last |-> "none"]

\* lines 312-318: when sync_server_states has returned or raised, update_server_status_ui
\* runs (it has no await) or the except clause does, and the task sleeps for 30 s
LoopAfter ==
    IF loop.pc = "off" \/ ev'.ctx /= "sync_server_states" THEN loop
    ELSE IF calls'["b"].pc = "idle"
    THEN [pc |-> "sleep", sleep |-> check_interval,
          last |-> IF ev'.out = "raised" THEN "raised" ELSE "completed"]
    ELSE [pc |-> "pass", sleep |-> 0, last |-> "none"]

\* line 328: on_disconnect is over when its stop_all_servers call has returned or raised
DisconnectAfter ==
    IF disconnect = "stopping" /\ ev'.ctx = "stop_all_servers" /\ calls'["a"].pc = "idle"
    THEN "done" ELSE disconnect

\* what a step of a ServerManager method means to the tasks that await it
HostAfter == loop' = LoopAfter /\ disconnect' = DisconnectAfter /\ UNCHANGED cfgVars

(* -------------------------- start_server ------------------------------ *)
\* lines 84-101: only internal_mock has a server_config, and it must be enabled
Eligible(k) == k = "internal_mock" /\ enabled

\* fault variants of the interval check: never throttling, always throttling
Throttled_never(k) == FALSE
Throttled_always(k) == TRUE

\* lines 104-108: current_time - last_attempt < self.min_restart_interval
Throttled(k) == SinceLastAttempt(k) < min_restart_interval

\* fault variant: the exception of Popen leaves start_server
PopenFailure_propagates(exc) == "raised"

\* lines 141-148: both except clauses clear the entry and return False
PopenFailure(exc) == "SpawnError"

\* the path start_server takes up to its first await
StartOutcome(k, popen) ==
    IF is_running(k) THEN "AlreadyRunning"
    ELSE IF ~Eligible(k) THEN "NotEligible"
    ELSE IF Throttled(k) THEN "Throttled"
    ELSE IF popen = "ok" THEN "Spawned"
    ELSE PopenFailure(popen)

\* fault variant: the new process is not put into the registry
RegisterProcess_skipped(k, p) == DictSet(server_processes, k, GetProcess(k))

\* line 128: self.server_processes[server_key] = process
RegisterProcess(k, p) == DictSet(server_processes, k, p)

\* start_server from its call to its first await (line 132) or its return
start_server_begin(c, k, popen, ctx) ==
    LET out == StartOutcome(k, popen)
        attempt == out \in {"Spawned", "SpawnError", "raised"}
        p == IF out = "Spawned" THEN NewPid ELSE None
        after == IF recent.key = k THEN recent.phase ELSE "none"
        firstProc == IF recent.key = k THEN recent.proc ELSE None
        regNext == IF out = "Spawned" THEN RegisterProcess(k, p)
                   ELSE IF out = "SpawnError" THEN DictSet(server_processes, k, None)
                   ELSE server_processes
        lastNext == IF attempt THEN DictSet(last_start_attempt_times, k, 0) ELSE last_start_attempt_times
    IN  /\ out = "Spawned" => HasUnborn
        /\ ~attempt => popen = "ok"              \* Popen not reached: no result to draw
        /\ server_processes' = regNext
        /\ last_start_attempt_times' = lastNext
        /\ procs' = IF out = "Spawned" THEN [procs EXCEPT ![p] = [state |-> "alive", key |-> k]] ELSE procs
        /\ lastLaunch' = IF attempt THEN [lastLaunch EXCEPT ![k] = 0] ELSE lastLaunch
        /\ calls' = [calls EXCEPT ![c] =
                        IF out = "Spawned"
                        THEN [@ EXCEPT !.op = ctx,
                                       !.key = k, !.pc = "grace", !.sleep = grace_period,
                                       !.process = p, !.spawned = @ + 1, !.stoppedProc = None]
                        ELSE Idle]
        /\ ev' = [NoEv EXCEPT !.kind = "start_begin", !.key = k, !.ctx = ctx,
                              !.popen = IF attempt THEN popen ELSE "none",
                              !.out = out, !.proc = p,
                              !.preLive = HasLiveHandle(k),
                              !.preEnabled = enabled,
                              !.preThrottled = (k \in DOMAIN last_start_attempt_times
                                                /\ last_start_attempt_times[k] < min_restart_interval),
                              !.gapOK = (attempt => lastLaunch[k] \notin 0..(min_restart_interval - 1)),
                              !.after = after,
                              !.firstSpawned = IF firstProc /= None THEN 1 ELSE 0,
                              !.firstAlive = Alive(firstProc),
                              !.mustStart = calls[c].mustStart,
                              !.passSpawned = calls[c].spawned + (IF out = "Spawned" THEN 1 ELSE 0)]
        /\ passDone' = (passDone \/ (ctx = "sync_server_states" /\ out /= "Spawned"))
        /\ recent' = IF HasLiveHandle(k) THEN recent
                      ELSE [key |-> k, proc |-> p, phase |-> IF out = "Spawned" THEN "grace" ELSE "returned"]
        /\ UNCHANGED <<clientVars, enabled, mcpServers>>
        /\ HostAfter

\* a caller invokes start_server(k)
CallStartServer(c, k, popen) ==
    /\ calls[c].pc = "idle"
    /\ start_server_begin(c, k, popen, "start_server")

\* fault variant: the probe puts the process it finds alive back into the registry
ProbeRegistry_reregisters(k, p) == DictSet(server_processes, k, IF Alive(p) THEN p ELSE None)

\* lines 133-140: the entry is set to None if the process has exited and is left else
ProbeRegistry(k, p) == IF ~Alive(p) THEN DictSet(server_processes, k, None) ELSE server_processes

\* start_server after its grace wait: lines 133-140
StartServerProbe(c) ==
    LET k == calls[c].key
        p == calls[c].process
        dead == ~Alive(p)
        regNext == ProbeRegistry(k, p)
    IN  /\ calls[c].pc = "grace"
        /\ calls[c].sleep = 0
        /\ server_processes' = regNext
        /\ calls' = [calls EXCEPT ![c] = Idle]
        /\ ev' = [NoEv EXCEPT !.kind = "start_probe", !.key = k,
                              !.ctx = calls[c].op,
                              !.out = IF dead THEN "StartupFailed" ELSE "Started",
                              !.proc = p,
                              !.stopped = calls[c].stopped,
                              !.mustStart = calls[c].mustStart,
                              !.passSpawned = calls[c].spawned]
        /\ passDone' = (passDone \/ calls[c].op = "sync_server_states")
        /\ recent' = IF recent.key = k /\ recent.proc = p /\ recent.phase = "grace"
                      THEN [recent EXCEPT !.phase = "returned"] ELSE NoRecent
        /\ UNCHANGED <<clientVars, enabled, mcpServers, last_start_attempt_times, procs, lastLaunch>>
        /\ HostAfter

(* --------------------------- stop_server ------------------------------ *)
\* the keys of K whose stop_server call enters the branch of lines 153-178
Stopping(K) == {k \in K : HasLiveHandle(k)}

\* fault variant: the entry is set to None outside the guard of line 153 too
StopRegistry_always(K) == [x \in DOMAIN server_processes \cup K |-> IF x \in K THEN None ELSE server_processes[x]]

\* line 178, reached only inside the branch: self.server_processes[server_key] = None
StopRegistry(K) == [x \in DOMAIN server_processes |-> IF x \in Stopping(K) THEN None ELSE server_processes[x]]

\* lines 163-173: terminate(), wait(timeout=5), on a timeout kill() and wait(); when
\* terminating raises the process is left as it is
StopProcs(K, path) == [p \in Pids |-> IF /\ \E k \in Stopping(K) : server_processes[k] = p
                                         /\ path \in {"graceful", "forced"}
                                      THEN [procs[p] EXCEPT !.state = "exited"] ELSE procs[p]]

\* fault variant: the entry is set to None at the end of the try block, not in a finally
ClearsHandle_on_success(path) == path \in {"graceful", "forced"}

\* lines 177-178: the finally clause runs on every path
ClearsHandle(path) == path \in StopPaths

\* lines 167-176: what terminate() raises is caught by `except Exception`; what is raised
\* inside the `except subprocess.TimeoutExpired` handler is caught by no clause
StopRaises(K, path) == Stopping(K) /= {} /\ path = "kill_error"

\* what a stop_server call returns: it returns None in every case
StopOutcome(K, path) ==
    IF Stopping(K) = {} THEN "NotRunning"
    ELSE IF StopRaises(K, path) THEN "raised"
    ELSE "Stopped"

\* the callers, with those marked whose start_server call for a key of K is in its grace
\* wait (history)
MarkStopped(K) == [x \in Callers |-> IF calls[x].pc = "grace" /\ calls[x].key \in K
                                     THEN [calls[x] EXCEPT !.stopped = TRUE] ELSE calls[x]]

\* stop_server has no await: the calls for the keys of K run back to back. The seconds
\* they block the event loop are seconds in which nothing else runs: Tick steps.
stop_servers(K, path) ==
    /\ Stopping(K) = {} => path = "graceful"     \* no try statement entered: no path to draw
    /\ server_processes' = IF ClearsHandle(path) THEN StopRegistry(K) ELSE server_processes
    /\ procs' = StopProcs(K, path)
    /\ recent' = NoRecent
    /\ UNCHANGED <<clientVars, last_start_attempt_times, lastLaunch>>

\* a caller invokes stop_server(k)
CallStopServer(c, k, path) ==
    /\ calls[c].pc = "idle"
    /\ stop_servers({k}, path)
    /\ ev' = [NoEv EXCEPT !.kind = "stop_server", !.key = k, !.ctx = "stop_server",
                          !.stops = {k}, !.preLive = HasLiveHandle(k),
                          !.path = IF HasLiveHandle(k) THEN path ELSE "none",
                          !.out = StopOutcome({k}, path)]
    /\ calls' = MarkStopped({k})
    /\ UNCHANGED <<clientVars, enabled, mcpServers, passDone>>
    /\ HostAfter

\* the event loop is blocked: a stop_server call sits in the synchronous process.wait()
\* of line 173, which has no timeout
Blocked == \E c \in Callers : calls[c].pc = "stop_wait"

\* stop_server(k) on the path where the wait of line 166 times out and the forced
\* termination does not end the process (taskkill is run with check=False, line 170):
\* the call is left in process.wait()
StopServerKillFails(c, k) ==
    /\ ~Blocked
    /\ calls[c].pc = "idle"
    /\ HasLiveHandle(k)
    /\ calls' = [MarkStopped({k}) EXCEPT ![c] = [Idle EXCEPT !.op = "stop_server", !.key = k,
                                                             !.pc = "stop_wait",
                                                             !.process = GetProcess(k)]]
    /\ ev' = [NoEv EXCEPT !.kind = "stop_server", !.key = k, !.ctx = "stop_server",
                          !.stops = {k}, !.preLive = TRUE, !.path = "kill_ineffective",
                          !.out = "waiting"]
    /\ recent' = NoRecent
    /\ UNCHANGED <<clientVars, enabled, mcpServers, server_processes, last_start_attempt_times,
                   procs, lastLaunch, passDone>>
    /\ HostAfter

\* process.wait() returns once the process has exited; lines 174 and 178 follow
StopWaitReturns(c) ==
    /\ calls[c].pc = "stop_wait"
    /\ ~Alive(calls[c].process)
    /\ server_processes' = DictSet(server_processes, calls[c].key, None)
    /\ calls' = [calls EXCEPT ![c] = Idle]
    /\ ev' = [NoEv EXCEPT !.kind = "stop_server", !.key = calls[c].key, !.ctx = "stop_server",
                          !.stops = {calls[c].key}, !.path = "kill_ineffective",
                          !.out = "Stopped"]
    /\ recent' = NoRecent
    /\ UNCHANGED <<clientVars, enabled, mcpServers, last_start_attempt_times, procs, lastLaunch,
                   passDone>>
    /\ HostAfter

(* -------------------------- restart_server ---------------------------- *)
\* stoppedProc (history): the process that the stop_server call of this restart_server
\* found running, None if it found none
\* lines 203-204: await self.stop_server(server_key); await asyncio.sleep(1); what
\* stop_server raises leaves restart_server
CallRestartServer(c, k, path) ==
    /\ calls[c].pc = "idle"
    /\ stop_servers({k}, path)
    /\ calls' = [MarkStopped({k}) EXCEPT ![c] = IF StopRaises({k}, path) THEN Idle
                                     ELSE [Idle EXCEPT !.op = "restart_server", !.key = k,
                                                       !.pc = "restart_settle", !.sleep = settle_delay,
                                                       !.stoppedProc = IF HasLiveHandle(k) THEN GetProcess(k)
                                                                       ELSE None]]
    /\ ev' = [NoEv EXCEPT !.kind = "stop_server", !.key = k, !.ctx = "restart_server",
                          !.stops = {k}, !.preLive = HasLiveHandle(k),
                          !.path = IF HasLiveHandle(k) THEN path ELSE "none",
                          !.out = StopOutcome({k}, path)]
    /\ UNCHANGED <<clientVars, enabled, mcpServers, passDone>>
    /\ HostAfter

\* line 205: return await self.start_server(server_key)
\* fault variant: restart_server without the sleep between the stop and the start
RestartStart_at_once(c, popen) ==
    /\ calls[c].pc = "restart_settle"
    /\ start_server_begin(c, calls[c].key, popen, "restart_server")

RestartStart(c, popen) ==
    /\ calls[c].pc = "restart_settle"
    /\ calls[c].sleep = 0
    /\ start_server_begin(c, calls[c].key, popen, "restart_server")

(* ------------------------- stop_all_servers --------------------------- *)
\* line 184: one stop_server coroutine per key of server_processes; gather() of
\* nothing is done at once, otherwise the caller waits for the gathered tasks
stop_all_begin(c) ==
    LET K == DOMAIN server_processes
    IN  /\ calls[c].pc = "idle"
        /\ calls' = [calls EXCEPT ![c] = IF K = {} THEN Idle
                                         ELSE [Idle EXCEPT !.op = "stop_all_servers",
                                                           !.pc = "stopall_gather", !.stop_tasks = K]]
        /\ ev' = [NoEv EXCEPT !.kind = IF K = {} THEN "stop_all_return" ELSE "stop_all_call",
                              !.ctx = "stop_all_servers"]
        /\ recent' = NoRecent
        /\ UNCHANGED <<enabled, mcpServers, server_processes, last_start_attempt_times,
                       procs, lastLaunch, passDone>>

\* a caller invokes stop_all_servers()
CallStopAll(c) ==
    /\ stop_all_begin(c)
    /\ UNCHANGED clientVars
    /\ HostAfter

\* line 185: the gathered stop_server tasks run; gather hands on what one of them raises
StopAllRun(c, path) ==
    /\ calls[c].pc = "stopall_gather"
    /\ stop_servers(calls[c].stop_tasks, path)
    /\ calls' = [MarkStopped(calls[c].stop_tasks) EXCEPT
                    ![c].pc = IF StopRaises(calls[c].stop_tasks, path)
                              THEN "stopall_raise" ELSE "stopall_resume"]
    /\ ev' = [NoEv EXCEPT !.kind = "stop_all_run", !.ctx = "stop_all_servers",
                          !.stops = calls[c].stop_tasks,
                          !.path = IF Stopping(calls[c].stop_tasks) /= {} THEN path ELSE "none",
                          !.out = StopOutcome(calls[c].stop_tasks, path)]
    /\ UNCHANGED <<clientVars, enabled, mcpServers, passDone>>
    /\ HostAfter

\* lines 185-186: gather's future wakes stop_all_servers, which returns, or raises what
\* gather raises
StopAllReturn(c) ==
    /\ calls[c].pc \in {"stopall_resume", "stopall_raise"}
    /\ calls' = [calls EXCEPT ![c] = Idle]
    /\ ev' = [NoEv EXCEPT !.kind = IF calls[c].pc = "stopall_raise" THEN "stop_all_raise"
                                   ELSE "stop_all_return",
                          !.ctx = "stop_all_servers",
                          !.out = IF calls[c].pc = "stopall_raise" THEN "raised" ELSE "none",
                          !.stops = calls[c].stop_tasks]
    /\ recent' = NoRecent
    /\ UNCHANGED <<clientVars, enabled, mcpServers, server_processes, last_start_attempt_times,
                   procs, lastLaunch, passDone>>
    /\ HostAfter

(* ------------------------ sync_server_states -------------------------- *)
\* line 211
all_managed_keys == {"internal_mock"} \cup mcpServers

\* lines 216-220: the mcpServers branch is commented out
should_be_enabled(k) == k = "internal_mock" /\ enabled

\* line 224
MustStart == {k \in all_managed_keys : should_be_enabled(k) /\ ~is_running(k)}

\* line 227
MustStop == {k \in all_managed_keys : ~should_be_enabled(k) /\ is_running(k)}

\* fault variant: the start tasks are gathered before the stop tasks
AfterScan_starts_first ==
    IF MustStart /= {} THEN "sync_start_gather"
    ELSE IF MustStop /= {} THEN "sync_stop_gather" ELSE "idle"

\* lines 232-238: the stop tasks are gathered first, if there are any, then the start tasks
AfterScan ==
    IF MustStop /= {} THEN "sync_stop_gather"
    ELSE IF MustStart /= {} THEN "sync_start_gather" ELSE "idle"

\* lines 210-229: the scan; the coroutines it collects run only when gathered
CallSync(c) ==
    LET next == AfterScan
    IN  /\ calls[c].pc = "idle"
        /\ calls' = [calls EXCEPT ![c] = IF next = "idle" THEN Idle
                                         ELSE [Idle EXCEPT !.op = "sync_server_states", !.pc = next,
                                                           !.start_tasks = MustStart, !.stop_tasks = MustStop,
                                                           !.mustStart = "internal_mock" \in MustStart]]
        /\ ev' = [NoEv EXCEPT !.kind = "sync_scan", !.ctx = "sync_server_states",
                              !.starts = MustStart, !.stops = MustStop,
                              !.afterPass = passDone,
                              !.inSync = (enabled <=> HasLiveHandle("internal_mock")),
                              !.mustStart = "internal_mock" \in MustStart]
        /\ passDone' = (passDone \/ next = "idle")
        /\ recent' = NoRecent
        /\ UNCHANGED <<clientVars, enabled, mcpServers, server_processes, last_start_attempt_times,
                       procs, lastLaunch>>
        /\ HostAfter

\* lines 232-234: the gathered stop_server tasks run, then asyncio.sleep(1)
SyncStops(c, path) ==
    /\ calls[c].pc = "sync_stop_gather"
    /\ stop_servers(calls[c].stop_tasks, path)
    /\ calls' = [MarkStopped(calls[c].stop_tasks) EXCEPT
                    ![c] = IF StopRaises(calls[c].stop_tasks, path) THEN Idle
                           ELSE [@ EXCEPT !.pc = "sync_settle", !.sleep = settle_delay]]
    /\ ev' = [NoEv EXCEPT !.kind = "sync_stops", !.ctx = "sync_server_states",
                          !.stops = calls[c].stop_tasks,
                          !.path = IF Stopping(calls[c].stop_tasks) /= {} THEN path ELSE "none",
                          !.out = StopOutcome(calls[c].stop_tasks, path)]
    /\ UNCHANGED <<clientVars, enabled, mcpServers, passDone>>
    /\ HostAfter

\* lines 237-241 after the sleep: gather the start tasks, or return
SyncSettled(c) ==
    /\ calls[c].pc = "sync_settle"
    /\ calls[c].sleep = 0
    /\ calls' = [calls EXCEPT ![c] = IF calls[c].start_tasks = {} THEN Idle
                                     ELSE [@ EXCEPT !.pc = "sync_start_gather"]]
    /\ ev' = [NoEv EXCEPT !.kind = "sync_settled", !.ctx = "sync_server_states"]
    /\ passDone' = (passDone \/ calls[c].start_tasks = {})
    /\ recent' = NoRecent
    /\ UNCHANGED <<clientVars, enabled, mcpServers, server_processes, last_start_attempt_times,
                   procs, lastLaunch>>
    /\ HostAfter

\* line 238: the gathered start_server task runs (should_be_enabled holds of one key
\* only, so a pass gathers at most one)
SyncStart(c, popen) ==
    /\ calls[c].pc = "sync_start_gather"
    /\ \E k \in calls[c].start_tasks : start_server_begin(c, k, popen, "sync_server_states")

(* ------------------------------ environment --------------------------- *)
\* a coroutine that is ready to run (a gathered task, a caller whose gather is done) and
\* waits for no timer
Ready(c) == calls[c].pc \in {"stopall_gather", "stopall_resume", "stopall_raise", "sync_stop_gather",
                           "sync_start_gather"}

\* a second passes: every recorded time is a second older, every sleep a second shorter.
\* A ready coroutine runs within the second; one whose sleep is over may be resumed late
\* (stop_server blocks the event loop while it waits for the child).
Tick ==
    /\ \A c \in Callers : ~Ready(c)
    /\ last_start_attempt_times' = [k \in DOMAIN last_start_attempt_times |->
                                        IF last_start_attempt_times[k] < min_restart_interval
                                        THEN last_start_attempt_times[k] + 1 ELSE last_start_attempt_times[k]]
    /\ lastLaunch' = [k \in Keys |-> IF lastLaunch[k] >= 0 /\ lastLaunch[k] < min_restart_interval
                                     THEN lastLaunch[k] + 1 ELSE lastLaunch[k]]
    /\ calls' = [c \in Callers |-> IF calls[c].sleep > 0 THEN [calls[c] EXCEPT !.sleep = @ - 1] ELSE calls[c]]
    /\ ev' = NoEv
    /\ loop' = IF loop.sleep > 0 THEN [loop EXCEPT !.sleep = @ - 1] ELSE loop
    /\ UNCHANGED <<clientVars, recent, enabled, mcpServers, server_processes, procs, passDone, disconnect,
                   cfgVars>>

\* a child process exits on its own
ProcExit(p) ==
    /\ Alive(p)
    /\ procs' = [procs EXCEPT ![p].state = "exited"]
    /\ ev' = NoEv
    /\ UNCHANGED <<clientVars, recent, enabled, mcpServers, server_processes, last_start_attempt_times, calls,
                   lastLaunch, passDone>>
    /\ HostAfter

\* SettingsView.toggle_server_enabled for internal_mock: the flag is flipped and saved
ToggleEnabled ==
    /\ enabled' = ~enabled
    /\ passDone' = FALSE
    /\ ev' = NoEv
    /\ recent' = NoRecent
    /\ UNCHANGED <<clientVars, mcpServers, server_processes, last_start_attempt_times, procs, calls,
                   lastLaunch>>
    /\ HostAfter

(* ===================== session manager (MCPClient) ==================== *)
MockUrl == "http://localhost:8001/sse"   \* get_active_mcp_url for internal_mock
ExternalUrl == "http://remote/sse"       \* config["external_mcp_url"] once saved by save_settings
Command == "command"                     \* config["mcpServers"]["srv1"]["command"]

\* entries config["mcpServers"] can hold: srv1 is a stdio entry with a command, nocmd a
\* stdio entry without one, noport an sse entry without a port
ServerEntries == {"srv1", "nocmd", "noport"}
ConfigKeys == {"internal_mock", "external"} \cup ServerEntries

ConnIds == 1..MaxConns
\* "h1": an event handler calling the MCPClient methods (connect_to_server, aclose, get_tools,
\* run_tool), update_mcp_client or route_change; "h2": a second route_change event
ClientCallers == {"h1", "h2"}
Direct == {"h1"}
Triggers == {"h1"}
Routes == {"/", "/settings"}

NoTarget == [type |-> "None", addr |-> "None", key |-> "None"]

\* the arguments connect_to_server is called with: server_type, server_command_or_server_url,
\* stdio_server_key
Targets == {[type |-> "sse", addr |-> MockUrl, key |-> "None"],
            [type |-> "sse", addr |-> ExternalUrl, key |-> "None"],
            [type |-> "stdio", addr |-> Command, key |-> "srv1"]}

NoDone == [op |-> "none", target |-> NoTarget, out |-> "none"]

CIdle == [op |-> "none", pc |-> "idle", target |-> NoTarget, route |-> "none", conn |-> None,
          exc |-> FALSE, after |-> NoDone, alone |-> TRUE, preType |-> "None", fresh |-> FALSE]

NoCev == [kind |-> "none", op |-> "none", target |-> NoTarget, out |-> "none", after |-> NoDone,
          alone |-> TRUE, preType |-> "None", fresh |-> FALSE, atOnce |-> FALSE, view |-> "none"]

(* ------------------------------- config ------------------------------- *)
\* ConfigManager.get_server_config_by_key(active key) is not None
ActiveConfigFound == active_server_key \in {"internal_mock", "external"} \cup mcpServers

\* ConfigManager.get_active_server_type(): the "type" of the active entry; the built-in
\* server and the external one are sse
get_active_server_type ==
    IF ~ActiveConfigFound THEN "None"
    ELSE IF active_server_key \in {"internal_mock", "external", "noport"} THEN "sse" ELSE "stdio"

\* ConfigManager.get_active_mcp_url(): None for an mcpServers entry without a port
get_active_mcp_url ==
    IF get_active_server_type /= "sse" THEN "None"
    ELSE IF active_server_key = "internal_mock" THEN MockUrl
    ELSE IF active_server_key = "external" THEN ExternalUrl
    ELSE "None"

\* active_server_config.get("command", None) of the active stdio entry
server_command == IF active_server_key = "srv1" THEN Command ELSE "None"

\* what update_mcp_client has to pass to connect_to_server
ActiveTarget ==
    IF get_active_server_type = "sse"
    THEN [type |-> "sse", addr |-> get_active_mcp_url, key |-> "None"]
    ELSE IF get_active_server_type = "stdio"
    THEN [type |-> "stdio", addr |-> server_command, key |-> active_server_key]
    ELSE NoTarget

(* ----------------------------- connections ---------------------------- *)
LiveConns == {c \in ConnIds : conns[c].state = "open"}

OnStack(c) == \E i \in 1..Len(exit_stack) : exit_stack[i].conn = c

\* an id no open connection has and nothing refers to any more
FreeConns == {c \in ConnIds : /\ conns[c].state /= "open"
                              /\ session /= c
                              /\ ~OnStack(c)
                              /\ \A h \in ClientCallers : cl[h].conn /= c}
NewConn == CHOOSE c \in FreeConns : \A d \in FreeConns : c <= d

\* stdio_client(...) or sse_client(...)
TransportCtx(type) == IF type = "stdio" THEN "stdio_client" ELSE "sse_client"

(* ------------------------- bookkeeping of calls ----------------------- *)
\* a call that other calls are interleaved with: no history is kept for it
Interleaved(rec) == [rec EXCEPT !.alone = FALSE, !.after = NoDone, !.preType = "None", !.fresh = FALSE]

\* caller h goes on as rec; the calls of the other callers have been interleaved with
Step(h, rec) == [x \in ClientCallers |->
                    IF x = h THEN rec
                    ELSE IF cl[x].pc /= "idle" THEN Interleaved(cl[x]) ELSE cl[x]]

OthersIdle(h) == \A x \in ClientCallers \ {h} : cl[x].pc = "idle"

\* the completed operation the call of h follows at once
After(h) == IF OthersIdle(h) THEN cdone ELSE NoDone

\* h starts an operation and is suspended in it
Suspend(h, rec) ==
    /\ cl' = Step(h, rec)
    /\ cev' = [NoCev EXCEPT !.kind = "call", !.op = rec.op, !.target = rec.target,
                            !.after = rec.after, !.alone = OthersIdle(h), !.preType = rec.preType,
                            !.fresh = rec.fresh]
    /\ cdone' = NoDone

\* the view route_change leaves in page.views (main.py lines 428-506): none if
\* update_mcp_client raised, since the lines after it are not reached; the settings view on
\* its route; else the home view, replaced by the settings view if there is no session
ViewInstalled(rec, out) ==
    IF rec.op /= "route_change" \/ out = "raised" THEN "none"
    ELSE IF rec.route = "/settings" THEN "settings"
    ELSE IF session /= None THEN "home" ELSE "settings"

\* the operation of h is over with outcome out
Return(h, rec, out, atOnce) ==
    /\ cl' = Step(h, CIdle)
    /\ cev' = [kind |-> "return", op |-> rec.op, target |-> rec.target, out |-> out,
               after |-> rec.after, alone |-> rec.alone, preType |-> rec.preType,
               fresh |-> rec.fresh, atOnce |-> atOnce, view |-> ViewInstalled(rec, out)]
    /\ cdone' = IF rec.alone THEN [op |-> rec.op, target |-> rec.target, out |-> out] ELSE NoDone

NewCall(h, op, target, route, pc) ==
    IF OthersIdle(h)
    THEN [CIdle EXCEPT !.op = op, !.pc = pc, !.target = target, !.route = route,
                       !.after = After(h), !.preType = server_type,
                       !.fresh = (exit_stack = <<>> /\ LiveConns = {})]
    ELSE Interleaved([CIdle EXCEPT !.op = op, !.pc = pc, !.target = target, !.route = route])

(* -------------------- MCPClient.connect_to_server --------------------- *)
\* the call: up to the await of the transport's context
CallConnect(h, t) ==
    /\ cl[h].pc = "idle"
    /\ Suspend(h, NewCall(h, "connect", t, "none", "transport"))
    /\ UNCHANGED <<hostVars, supVars, active_server_key, mcpState>>

\* await self.exit_stack.enter_async_context(stdio_client(...) / sse_client(...)):
\* the transport is up and its context is on the stack, or entering it raised
ConnectTransport(h, ok) ==
    /\ cl[h].pc = "transport"
    /\ IF ok
       THEN /\ FreeConns /= {}
            /\ conns' = [conns EXCEPT ![NewConn] = [state |-> "open", type |-> cl[h].target.type,
                                                    addr |-> cl[h].target.addr, init |-> FALSE]]
            /\ exit_stack' = Append(exit_stack, [ctx |-> TransportCtx(cl[h].target.type), conn |-> NewConn])
            /\ cl' = Step(h, [cl[h] EXCEPT !.pc = "session", !.conn = NewConn])
            /\ cev' = NoCev
            /\ cdone' = NoDone
       ELSE /\ Return(h, cl[h], "raised", FALSE)
            /\ UNCHANGED <<conns, exit_stack>>
    /\ UNCHANGED <<hostVars, supVars, active_server_key, session, server_type, server_command_or_server_url,
                   stdio_server_key>>

\* self.session = await self.exit_stack.enter_async_context(ClientSession(...))
ConnectSession(h) ==
    /\ cl[h].pc = "session"
    /\ exit_stack' = Append(exit_stack, [ctx |-> "ClientSession", conn |-> cl[h].conn])
    /\ session' = cl[h].conn
    /\ cl' = Step(h, [cl[h] EXCEPT !.pc = "initialize"])
    /\ cev' = NoCev
    /\ cdone' = NoDone
    /\ UNCHANGED <<hostVars, supVars, active_server_key, server_type, server_command_or_server_url,
                   stdio_server_key, conns>>

\* the stdio branch sets stdio_server_key, the sse branch leaves it
KeyAfterConnect(t) == IF t.type = "stdio" THEN t.key ELSE stdio_server_key

\* await self.session.initialize() and the assignments after it
ConnectInitialize(h, ok) ==
    /\ cl[h].pc = "initialize"
    /\ IF ok
       THEN /\ cl[h].conn \in LiveConns
            /\ server_type' = cl[h].target.type
            /\ server_command_or_server_url' = cl[h].target.addr
            /\ stdio_server_key' = KeyAfterConnect(cl[h].target)
            /\ conns' = [conns EXCEPT ![cl[h].conn].init = TRUE]
            /\ Return(h, cl[h], "connected", FALSE)
       ELSE /\ Return(h, cl[h], "raised", FALSE)
            /\ UNCHANGED <<server_type, server_command_or_server_url, stdio_server_key, conns>>
    /\ UNCHANGED <<hostVars, supVars, active_server_key, session, exit_stack>>

(* -------------------------- MCPClient.aclose -------------------------- *)
\* fault variant: the unwinding stops after one context
Unwound_after_one(stack) == TRUE

\* AsyncExitStack.aclose() exits contexts until none is left
Unwound(stack) == stack = <<>>

\* exiting a transport's context closes its connection
ExitContext(entry) ==
    IF entry.ctx \in {"stdio_client", "sse_client"}
    THEN [conns EXCEPT ![entry.conn] = [state |-> "closed", type |-> "None", addr |-> "None", init |-> FALSE]]
    ELSE conns

\* the exit stack of h is unwound: aclose returns, update_mcp_client swallows what it raised
\* and goes on to connect if the stdio entry has a command (an sse target has its URL)
AcloseDone(h, exc) ==
    IF cl[h].op \in {"update", "route_change"}
    THEN IF cl[h].target.addr = "None"
         THEN Return(h, cl[h], "no_command", FALSE)
         ELSE /\ cl' = Step(h, [cl[h] EXCEPT !.pc = "transport", !.exc = FALSE])
              /\ cev' = NoCev
              /\ cdone' = NoDone
    ELSE Return(h, cl[h], IF exc THEN "raised" ELSE "ok", FALSE)

\* await self.exit_stack.aclose(): nothing to exit, it returns without suspending
CallAclose(h) ==
    /\ cl[h].pc = "idle"
    /\ IF exit_stack = <<>>
       THEN Return(h, NewCall(h, "aclose", NoTarget, "none", "idle"), "ok", TRUE)
       ELSE Suspend(h, NewCall(h, "aclose", NoTarget, "none", "aclose"))
    /\ UNCHANGED <<hostVars, supVars, active_server_key, mcpState>>

\* one context is taken off the stack and exited, which may raise; the unwinding goes on
\* and what was raised is raised again at its end
aclose_step(h, raises) ==
    /\ cl[h].pc = "aclose"
    /\ IF exit_stack = <<>>
       THEN /\ ~raises
            /\ AcloseDone(h, cl[h].exc)
            /\ UNCHANGED <<exit_stack, conns>>
       ELSE LET top == exit_stack[Len(exit_stack)]
                rest == SubSeq(exit_stack, 1, Len(exit_stack) - 1)
            IN /\ exit_stack' = rest
               /\ conns' = ExitContext(top)
               /\ IF Unwound(rest)
                  THEN AcloseDone(h, cl[h].exc \/ raises)
                  ELSE /\ cl' = Step(h, [cl[h] EXCEPT !.exc = @ \/ raises])
                       /\ cev' = NoCev
                       /\ cdone' = NoDone
    /\ UNCHANGED <<active_server_key, session, server_type, server_command_or_server_url,
                   stdio_server_key>>

\* a step of an aclose() call made through the MCPClient or by update_mcp_client
AcloseStep(h, raises) ==
    /\ cl[h].op /= "on_disconnect"
    /\ aclose_step(h, raises)
    /\ UNCHANGED <<hostVars, supVars>>

(* ------------------ MCPClient.get_tools / run_tool -------------------- *)
SessionOps == {"get_tools", "run_tool"}

\* get_tools and run_tool raise ValueError if self.session is None and call the session else
CallsSession == session /= None

\* get_tools() / run_tool(): the ValueError, or the request is handed to the session
CallSessionOp(h, op) ==
    /\ cl[h].pc = "idle"
    /\ cev' = [NoCev EXCEPT !.kind = "return", !.op = op, !.atOnce = TRUE,
                            !.out = IF CallsSession THEN "session_called" ELSE "NotConnected"]
    /\ UNCHANGED <<hostVars, supVars, active_server_key, mcpState, cl, cdone>>

(* -------------------------- update_mcp_client ------------------------- *)
\* the connect of update_mcp_client: an sse target has its URL; a stdio entry without a
\* command is not connected to
update_connect(h, route, op) ==
    IF ActiveTarget.addr = "None"
    THEN Return(h, NewCall(h, op, ActiveTarget, route, "idle"), "no_command", TRUE)
    ELSE Suspend(h, NewCall(h, op, ActiveTarget, route, "transport"))

\* update_mcp_client(route) up to its first await: the assert on the sse URL; no session
\* yet, it connects; on the settings route it leaves the session; else it closes the client
\* and connects
update_begin(h, route, op) ==
    IF get_active_server_type = "None"
    THEN Return(h, NewCall(h, op, ActiveTarget, route, "idle"), "invalid", TRUE)
    ELSE IF get_active_server_type = "sse" /\ get_active_mcp_url = "None"
    THEN Return(h, NewCall(h, op, ActiveTarget, route, "idle"), "raised", TRUE)
    ELSE IF session = None
    THEN update_connect(h, route, op)
    ELSE IF route = "/settings"
    THEN Return(h, NewCall(h, op, ActiveTarget, route, "idle"), "suppressed", TRUE)
    ELSE IF exit_stack = <<>>
    THEN update_connect(h, route, op)
    ELSE Suspend(h, NewCall(h, op, ActiveTarget, route, "aclose"))

CallUpdate(h, route) ==
    /\ cl[h].pc = "idle"
    /\ update_begin(h, route, "update")
    /\ UNCHANGED <<hostVars, supVars, active_server_key, mcpState>>

(* ----------------------------- route_change --------------------------- *)
\* fault variant: every route change calls update_mcp_client
NeedsRebind_always == TRUE

\* the conditions under which route_change calls update_mcp_client: the bound type is
\* not the active one, or the sse URL, or the stdio key, is not the bound one
NeedsRebind ==
    LET type == get_active_server_type
    IN  IF type /= "None" /\ server_type /= type THEN TRUE
        ELSE IF type = "sse"
        THEN get_active_mcp_url /= "None" /\ server_command_or_server_url /= get_active_mcp_url
        ELSE IF type = "stdio"
        THEN stdio_server_key /= active_server_key
        ELSE FALSE

\* route_change(route) up to its first await inside update_mcp_client, or past the rebind
\* decision when there is nothing to rebind
CallRouteChange(h, route) ==
    /\ cl[h].pc = "idle"
    /\ IF NeedsRebind
       THEN update_begin(h, route, "route_change")
       ELSE Return(h, NewCall(h, "route_change", ActiveTarget, route, "idle"), "no_rebind", TRUE)
    /\ UNCHANGED <<hostVars, supVars, active_server_key, mcpState>>

\* SettingsView.save_settings: another server is made the active one
SaveSettings(k) ==
    /\ k \in {"internal_mock", "external"} \cup mcpServers
    /\ k /= active_server_key
    /\ active_server_key' = k
    /\ cev' = NoCev
    /\ UNCHANGED <<hostVars, supVars, mcpState, cl, cdone>>

NextClient ==
    \/ \E h \in Direct, t \in Targets : CallConnect(h, t)
    \/ \E h \in ClientCallers, ok \in BOOLEAN : ConnectTransport(h, ok)
    \/ \E h \in ClientCallers : ConnectSession(h)
    \/ \E h \in ClientCallers, ok \in BOOLEAN : ConnectInitialize(h, ok)
    \/ \E h \in Direct : CallAclose(h)
    \/ \E h \in Direct, op \in SessionOps : CallSessionOp(h, op)
    \/ \E h \in ClientCallers, raises \in BOOLEAN : AcloseStep(h, raises)
    \/ \E h \in Triggers, route \in Routes : CallUpdate(h, route)
    \/ \E k \in {"internal_mock", "external", "srv1"} : SaveSettings(k)

\* route changes only; a second one may arrive while the first is suspended
NextRoute ==
    \/ \E route \in Routes : CallRouteChange("h1", route)
    \/ \E route \in Routes : cl["h1"].pc /= "idle" /\ CallRouteChange("h2", route)
    \/ \E h \in ClientCallers, ok \in BOOLEAN : ConnectTransport(h, ok)
    \/ \E h \in ClientCallers : ConnectSession(h)
    \/ \E h \in ClientCallers, ok \in BOOLEAN : ConnectInitialize(h, ok)
    \/ \E h \in ClientCallers, raises \in BOOLEAN : AcloseStep(h, raises)
    \/ \E k \in {"internal_mock", "external", "srv1"} : SaveSettings(k)

(* ------------------------------ on_disconnect ------------------------- *)
\* line 328 reached: stop_all_servers is called, and is over at once if there is no key
DisconnectStopAll ==
    /\ stop_all_begin("a")
    /\ disconnect' = IF calls'["a"].pc = "idle" THEN "done" ELSE "stopping"
    /\ UNCHANGED <<loop, cfgVars>>

\* lines 322-328 up to the first await: the client is closed if it has a session (aclose
\* with an empty exit stack returns at once), then stop_all_servers is called
OnDisconnect(h) ==
    /\ disconnect = "none"
    /\ cl[h].pc = "idle"
    /\ IF session /= None /\ exit_stack /= <<>>
       THEN /\ Suspend(h, NewCall(h, "on_disconnect", NoTarget, "none", "aclose"))
            /\ disconnect' = "closing"
            /\ UNCHANGED <<supVars, active_server_key, mcpState, loop, cfgVars>>
       ELSE /\ DisconnectStopAll
            /\ UNCHANGED clientVars

\* lines 325-328: a step of the aclose() call; when it is over, whether it returned or
\* raised, stop_all_servers is called
DisconnectAclose(h, raises) ==
    /\ cl[h].op = "on_disconnect"
    /\ aclose_step(h, raises)
    /\ IF cl'[h].pc = "idle"
       THEN DisconnectStopAll
       ELSE UNCHANGED <<supVars, hostVars>>

\* a route change of the page, which is there until it is disconnected
RouteChange(h, route) ==
    /\ disconnect = "none"
    /\ CallRouteChange(h, route)

(* --------------------------- server_check_loop ------------------------ *)
\* lines 308-312: the task wakes up and calls sync_server_states
LoopPass ==
    /\ loop.pc = "sleep"
    /\ loop.sleep = 0
    /\ CallSync("b")

(* ---------------------------- ConfigManager --------------------------- *)
\* A configuration is kept as [s, d]: s maps the top-level keys with a plain value to it,
\* d maps the top-level keys with a dict value to that dict, itself a map from keys to
\* plain values. A key that is absent is outside the domain.
ScalarKeys == {"active_server_key"}
ScalarVals == {"internal_mock", "external"}
DictKeys == {"internal_mock_config", "mcpServers"}
SubKeys(k) == IF k = "internal_mock_config" THEN {"enabled", "port"} ELSE {"srv1"}
SubVals(x) == IF x = "enabled" THEN {"True", "False"}
              ELSE IF x = "port" THEN {"8001"} ELSE {"stdio"}

\* self.default_config as written in __init__
DefaultConfig ==
    [s |-> [x \in {"active_server_key"} |-> "internal_mock"],
     d |-> [k \in DictKeys |-> IF k = "internal_mock_config"
                               THEN [x \in {"enabled", "port"} |-> IF x = "enabled" THEN "True" ELSE "8001"]
                               ELSE [x \in {} |-> "stdio"]]]

\* the dicts a top-level key can hold
Dicts(k) == UNION {{f \in [S -> UNION {SubVals(x) : x \in S}] : \A x \in S : f[x] \in SubVals(x)} :
                   S \in SUBSET SubKeys(k)}

\* the contents config.json can have and the arguments save_config can be given
Configs ==
    {[s |-> fs, d |-> fd] :
        fs \in UNION {[S -> ScalarVals] : S \in SUBSET ScalarKeys},
        fd \in UNION {{f \in [S -> UNION {Dicts(k) : k \in S}] : \A k \in S : f[k] \in Dicts(k)} :
                      S \in SUBSET DictKeys}}

\* dict.update
Update(m, n) == [x \in DOMAIN m \cup DOMAIN n |-> IF x \in DOMAIN n THEN n[x] ELSE m[x]]

\* the loops of load_config (lines 67-71) and save_config (lines 83-87): a dict value is
\* merged into a dict that is there, any other value replaces what is there
Overlay(base, data) ==
    [s |-> Update(base.s, data.s),
     d |-> [k \in DOMAIN base.d \cup DOMAIN data.d |->
                IF k \in DOMAIN base.d /\ k \in DOMAIN data.d THEN Update(base.d[k], data.d[k])
                ELSE IF k \in DOMAIN data.d THEN data.d[k] ELSE base.d[k]]]

\* line 65: default_config.copy() is a shallow copy, so the dicts of the copy are the dicts
\* of default_config itself, and final_config[key].update(value) writes into them
Shared(defaults, data) ==
    [defaults EXCEPT !.d = [k \in DOMAIN defaults.d |->
                               IF k \in DOMAIN data.d THEN Update(defaults.d[k], data.d[k])
                               ELSE defaults.d[k]]]

NoResult == [kind |-> "none", value |-> DefaultConfig]

\* _ensure_config_keys (lines 24-44): the keys and sub-keys of the defaults that config.json
\* lacks are added to it
EnsureKeys(file) ==
    [s |-> Update(DefaultConfig.s, file.s),
     d |-> [k \in DOMAIN DefaultConfig.d \cup DOMAIN file.d |->
                IF k \in DOMAIN file.d /\ k \in DOMAIN DefaultConfig.d
                THEN Update(DefaultConfig.d[k], file.d[k])
                ELSE IF k \in DOMAIN file.d THEN file.d[k] ELSE DefaultConfig.d[k]]]

\* get_config() / load_config(apply_defaults=True)
GetConfig ==
    /\ got' = [kind |-> "merged", value |-> Overlay(default_config, config_file)]
    /\ default_config' = Shared(default_config, config_file)
    /\ UNCHANGED <<config_file, supVars, clientVars, loop, disconnect>>

\* load_config(apply_defaults=False): the content of the file as it is
LoadRaw ==
    /\ got' = [kind |-> "raw", value |-> config_file]
    /\ UNCHANGED <<config_file, default_config, supVars, clientVars, loop, disconnect>>

\* save_config(data, merge_with_current): with the merge the current merged view is loaded
\* and data is laid over it, its dict values being merged into the dicts of the view
SaveConfig(data, merge) ==
    /\ config_file' = IF merge THEN Overlay(Overlay(default_config, config_file), data) ELSE data
    /\ default_config' = IF merge THEN Shared(Shared(default_config, config_file), data)
                         ELSE default_config
    /\ got' = NoResult
    /\ UNCHANGED <<supVars, clientVars, loop, disconnect>>

\* set_config_value(key, value) for a key with a plain value: the merged view with the key
\* set is written to the file
SetConfigValue(key, value) ==
    /\ config_file' = [Overlay(default_config, config_file) EXCEPT
                            !.s = Update(@, [x \in {key} |-> value])]
    /\ default_config' = Shared(default_config, config_file)
    /\ got' = NoResult
    /\ UNCHANGED <<supVars, clientVars, loop, disconnect>>

(* ------------------------- the specifications ------------------------- *)
InitObjects ==
    /\ enabled \in BOOLEAN
    /\ server_processes = <<>>
    /\ last_start_attempt_times = <<>>
    /\ procs = [p \in Pids |-> [state |-> "unborn", key |-> "none"]]
    /\ calls = [c \in Callers |-> Idle]
    /\ ev = NoEv
    /\ lastLaunch = [k \in Keys |-> -1]
    /\ passDone = FALSE
    /\ recent = NoRecent
    /\ active_server_key = "internal_mock"
    /\ session = None
    /\ server_type = "None"
    /\ server_command_or_server_url = "None"
    /\ stdio_server_key = "None"
    /\ exit_stack = <<>>
    /\ conns = [c \in ConnIds |-> [state |-> "closed", type |-> "None", addr |-> "None", init |-> FALSE]]
    /\ cl = [h \in ClientCallers |-> CIdle]
    /\ cev = NoCev
    /\ cdone = NoDone
    /\ disconnect = "none"

\* the objects as constructed. The supervisor and the session manager read the
\* configuration through enabled, mcpServers and active_server_key; the file and the
\* defaults of the ConfigManager itself are followed under SpecConfig and rest elsewhere.
InitState ==
    /\ InitObjects
    /\ config_file = DefaultConfig
    /\ default_config = DefaultConfig
    /\ got = NoResult

\* the supervisor is run without an mcpServers entry or with srv1
InitVars == InitState /\ mcpServers \in {{}, {"srv1"}}

\* ServerManager and MCPClient as constructed, no task of main() created
Init == InitVars /\ loop = LoopOff

Next ==
    \/ \E c \in Callers, k \in Keys, popen \in PopenResults : CallStartServer(c, k, popen)
    \/ \E c \in Callers : StartServerProbe(c)
    \/ \E c \in Handlers, k \in Keys, path \in StopPaths : CallStopServer(c, k, path)
    \/ \E c \in Handlers, k \in Keys, path \in StopPaths : CallRestartServer(c, k, path)
    \/ \E c \in Callers, popen \in PopenResults : RestartStart(c, popen)
    \/ \E c \in Handlers : CallStopAll(c)
    \/ \E c \in Callers, path \in StopPaths : StopAllRun(c, path)
    \/ \E c \in Callers : StopAllReturn(c)
    \/ \E c \in Reconcilers : CallSync(c)
    \/ \E c \in Callers, path \in StopPaths : SyncStops(c, path)
    \/ \E c \in Callers : SyncSettled(c)
    \/ \E c \in Callers, popen \in PopenResults : SyncStart(c, popen)
    \/ Tick
    \/ \E p \in Pids : ProcExit(p)
    \/ ToggleEnabled

\* the supervisor with its callers
Spec == Init /\ [][Next]_vars

\* main() has created the server_check_loop task; no mcpServers entry is configured
InitLoop == InitVars /\ loop = LoopCreated /\ mcpServers = {}

\* the passes of server_check_loop, the child processes and the enabled switch
NextLoop ==
    \/ LoopPass
    \/ \E path \in StopPaths : SyncStops("b", path)
    \/ SyncSettled("b")
    \/ \E popen \in PopenResults : SyncStart("b", popen)
    \/ StartServerProbe("b")
    \/ Tick
    \/ \E p \in Pids : ProcExit(p)
    \/ ToggleEnabled

\* the event loop runs every task that is ready, and time passes
FairLoop ==
    /\ WF_vars(Tick)
    /\ WF_vars(LoopPass)
    /\ WF_vars(\E path \in StopPaths : SyncStops("b", path))
    /\ WF_vars(SyncSettled("b"))
    /\ WF_vars(\E popen \in PopenResults : SyncStart("b", popen))
    /\ WF_vars(StartServerProbe("b"))

\* the supervisor driven by server_check_loop alone
SpecLoop == InitLoop /\ [][NextLoop]_vars /\ FairLoop

\* main() has run: the task is created, internal_mock is enabled as in the default config
InitHost == InitVars /\ loop = LoopCreated /\ enabled /\ mcpServers = {}

\* the page with its route changes and its disconnection, beside server_check_loop. With
\* internal_mock enabled throughout and no mcpServers entry a pass has no stop task; the
\* settings are left as they are and the child processes do not exit on their own.
NextHost ==
    \/ LoopPass
    \/ \E popen \in PopenResults : SyncStart("b", popen)
    \/ StartServerProbe("b")
    \/ Tick
    \/ \E route \in Routes : RouteChange("h1", route)
    \/ \E ok \in BOOLEAN : ConnectTransport("h1", ok)
    \/ ConnectSession("h1")
    \/ \E ok \in BOOLEAN : ConnectInitialize("h1", ok)
    \/ \E raises \in BOOLEAN : AcloseStep("h1", raises)
    \/ OnDisconnect("h2")
    \/ \E raises \in BOOLEAN : DisconnectAclose("h2", raises)
    \/ \E path \in StopPaths : StopAllRun("a", path)
    \/ StopAllReturn("a")

\* the application: page events and the background task
SpecHost == InitHost /\ [][NextHost]_vars

\* the configuration the session manager is run with: all three targets can be made the
\* active one (its handlers do not read internal_mock_config.enabled)
InitClient == Init /\ enabled /\ mcpServers = {"srv1"}

\* the session manager with its callers
SpecClient == InitClient /\ [][NextClient]_vars

\* the session manager driven by route changes
SpecRoute == InitClient /\ [][NextRoute]_vars

\* every kind of entry is configured, among them two that do not resolve
InitBind == InitState /\ loop = LoopOff /\ enabled /\ mcpServers = ServerEntries

\* one route change at a time, and the settings view making another server the active one
NextBind ==
    \/ \E route \in Routes : CallRouteChange("h1", route)
    \/ \E ok \in BOOLEAN : ConnectTransport("h1", ok)
    \/ ConnectSession("h1")
    \/ \E ok \in BOOLEAN : ConnectInitialize("h1", ok)
    \/ \E raises \in BOOLEAN : AcloseStep("h1", raises)
    \/ \E k \in ConfigKeys : SaveSettings(k)

\* the rebind decisions of route_change over every kind of active target
SpecBind == InitBind /\ [][NextBind]_vars

\* start_server and stop_server calls, with the forced termination that may not end the
\* process; nothing else runs while a call blocks the event loop
RunStartServer(c, popen) == ~Blocked /\ CallStartServer(c, "internal_mock", popen)
RunStartProbe(c) == ~Blocked /\ StartServerProbe(c)
RunStopServer(c, path) == ~Blocked /\ CallStopServer(c, "internal_mock", path)

NextStop ==
    \/ \E c \in Callers, popen \in PopenResults : RunStartServer(c, popen)
    \/ \E c \in Callers : RunStartProbe(c)
    \/ \E c \in Handlers, path \in StopPaths : RunStopServer(c, path)
    \/ \E c \in Handlers : StopServerKillFails(c, "internal_mock")
    \/ \E c \in Handlers : StopWaitReturns(c)
    \/ Tick
    \/ \E p \in Pids : ProcExit(p)

\* time passes and the event loop runs what is ready; a child process need not exit
FairStop ==
    /\ WF_vars(Tick)
    /\ WF_vars(\E c \in Callers : RunStartProbe(c))
    /\ WF_vars(\E c \in Handlers : StopWaitReturns(c))

\* the supervisor's start and stop with a child process that can survive its termination
SpecStop == Init /\ [][NextStop]_vars /\ FairStop

\* ConfigManager() over a config.json with any content: _ensure_config_keys has run
InitConfig ==
    /\ InitObjects /\ enabled /\ mcpServers = {} /\ loop = LoopOff
    /\ config_file \in {EnsureKeys(f) : f \in Configs}
    /\ default_config = DefaultConfig
    /\ got = NoResult

NextConfig ==
    \/ GetConfig
    \/ LoadRaw
    \/ \E data \in Configs, merge \in BOOLEAN : SaveConfig(data, merge)
    \/ \E key \in ScalarKeys, value \in ScalarVals : SetConfigValue(key, value)

\* the configuration manager with its callers
SpecConfig == InitConfig /\ [][NextConfig]_vars

(* ============================== claims ================================ *)
StopKinds == {"stop_server", "sync_stops", "stop_all_run"}

\* the step was the first segment of a start_server call made in immediate succession
\* to another start_server call for the same key that had found no live process
SecondStart == ev.kind = "start_begin" /\ ev.after /= "none"

C2_Throttle ==
    [][ /\ (ev'.kind = "start_begin" /\ ev'.preThrottled /\ ~ev'.preLive)
            => /\ ev'.out \in {"Throttled", "NotEligible"}
               /\ UNCHANGED <<clientVars, last_start_attempt_times, procs, server_processes>>
        /\ ev'.kind = "start_begin" => ev'.gapOK ]_vars

C2_Witness == ev.kind = "start_begin" /\ ev.preThrottled /\ ~ev.preLive /\ ev.out = "Throttled"
              /\ GetProcess(ev.key) = None

\* C3: stop_server on a key with no live handle reports NotRunning and leaves that key's
\* registry entry, the recorded start attempts and every child process of the key unchanged.
C3_StopNoHandle ==
    [][ \A k \in Keys :
            (ev'.kind \in StopKinds /\ k \in ev'.stops /\ ~HasLiveHandle(k))
            => /\ (k \in DOMAIN server_processes') = (k \in DOMAIN server_processes)
               /\ k \in DOMAIN server_processes => server_processes'[k] = server_processes[k]
               /\ last_start_attempt_times' = last_start_attempt_times
               /\ \A p \in Pids : procs[p].key = k => procs'[p] = procs[p]
               /\ ev'.kind = "stop_server" => ev'.out = "NotRunning" ]_vars

C3_Witness == ev.kind = "stop_server" /\ ev.out = "NotRunning"
              /\ ev.key \notin DOMAIN server_processes

\* C4 as stated: when stop_all_servers returns, get_running_servers() is empty.
C4_Claim == ev.kind = "stop_all_return" => get_running_servers = {}

\* C7 as stated, read in its favour: a pass that follows a completed pass with no change of
\* the configuration in between, and that finds internal_mock running exactly if it is
\* enabled, issues no start_server and no stop_server.
C7_Claim == (ev.kind = "sync_scan" /\ ev.afterPass /\ ev.inSync) => ev.starts = {} /\ ev.stops = {}

\* the step completed a pass that had found internal_mock enabled and not running
PassThatMustStartDone ==
    /\ ev.ctx = "sync_server_states" /\ ev.mustStart
    /\ \/ ev.kind = "start_probe"
       \/ ev.kind = "start_begin" /\ ev.out /= "Spawned"

\* C8 as stated: a pass that finds internal_mock enabled and not running starts exactly one
\* process for it, and is_running(internal_mock) is true if that process is alive.
C8_Original ==
    PassThatMustStartDone => ev.passSpawned = 1 /\ (Alive(ev.proc) => is_running("internal_mock"))

\* C8 amended: if, when the start_server task of the pass runs, internal_mock is still enabled
\* and not running and its recorded start attempt is at least min_restart_interval old, the
\* pass makes one launch attempt; if Popen succeeds the pass has started exactly one process,
\* which is registered, and is_running(internal_mock) is true at once.
C8_Amended ==
    (ev.kind = "start_begin" /\ ev.ctx = "sync_server_states" /\ ev.key = "internal_mock"
     /\ ev.preEnabled /\ ~ev.preLive /\ ~ev.preThrottled)
    => /\ ev.out \in {"Spawned", "SpawnError"}
       /\ ev.out = "Spawned" => /\ ev.passSpawned = 1
                                /\ Alive(ev.proc)
                                /\ GetProcess("internal_mock") = ev.proc
                                /\ is_running("internal_mock")
                                /\ get_running_servers = {"internal_mock"}

C8_Witness == ev.kind = "start_begin" /\ ev.ctx = "sync_server_states" /\ ev.mustStart
              /\ ev.out = "Spawned" /\ is_running("internal_mock")

\* C10: when Popen raises FileNotFoundError, start_server returns False (SpawnError), the
\* registry holds no handle for the key, is_running of the key is false and the caller is
\* free to make its next call.
C10_SpawnError ==
    (ev.kind = "start_begin" /\ ev.popen = "FileNotFoundError")
    => /\ ev.out = "SpawnError"
       /\ GetProcess(ev.key) = None
       /\ ~is_running(ev.key)
       /\ ev.key \notin get_running_servers
       /\ \E c \in Callers : calls[c].pc = "idle"

C10_Witness == ev.kind = "start_begin" /\ ev.popen = "FileNotFoundError" /\ ev.out = "SpawnError"

(* ----------------------- session manager claims ----------------------- *)
\* the step completed a connect_to_server call that succeeded and had been issued right
\* after another connect_to_server call, to a different target, had succeeded
SecondConnect ==
    /\ cev.kind = "return" /\ cev.op = "connect" /\ cev.out = "connected" /\ cev.alone
    /\ cev.after.op = "connect" /\ cev.after.out = "connected"
    /\ cev.after.target /= cev.target

\* C5: after connect_to_server followed at once by connect_to_server with a different
\* target there is exactly one live underlying connection, it is the one to the newer
\* target, and the client reports the newer target.
C5_Claim ==
    SecondConnect =>
        /\ Cardinality(LiveConns) = 1
        /\ \A c \in LiveConns : conns[c].type = cev.target.type /\ conns[c].addr = cev.target.addr
        /\ session \in LiveConns
        /\ server_type = cev.target.type
        /\ server_command_or_server_url = cev.target.addr

\* C6: an aclose() called right after an aclose() has returned (normally or by raising)
\* returns without suspending, raises nothing and changes no field of the client, no
\* context on its exit stack and no connection.
C6_CloseTwice ==
    [][ (cev'.op = "aclose" /\ cev'.kind \in {"call", "return"} /\ cev'.after.op = "aclose"
         /\ cl.h1.pc = "idle")
        => (cev'.kind = "return" /\ cev'.atOnce /\ cev'.out = "ok" /\ UNCHANGED mcpState) ]_vars

\* a second aclose() has returned after the first one closed the connection of a session
C6_Witness ==
    /\ cev.kind = "return" /\ cev.op = "aclose" /\ cev.atOnce /\ cev.after.op = "aclose"
    /\ session /= None /\ conns[session].state = "closed"
    /\ exit_stack = <<>>

\* the step completed an update_mcp_client call that found the client bound to a stdio
\* target, closed it and connected it to the active sse target
RebindStdioToSse ==
    /\ cev.kind = "return" /\ cev.op = "update" /\ cev.out = "connected" /\ cev.alone
    /\ cev.preType = "stdio" /\ cev.target.type = "sse"

\* C9: after a rebind from a stdio target to an sse target the client is bound to the sse
\* target and refers to no stdio transport any more: none on the exit stack, no open stdio
\* connection, no stdio_server_key.
C9_Claim ==
    RebindStdioToSse =>
        /\ server_type = "sse"
        /\ server_command_or_server_url = cev.target.addr
        /\ session \in LiveConns /\ conns[session].type = "sse"
        /\ \A i \in 1..Len(exit_stack) : exit_stack[i].ctx /= "stdio_client"
        /\ \A c \in LiveConns : conns[c].type /= "stdio"
        /\ stdio_server_key = "None"

\* the step completed a connect_to_server call that raised, made on a client that held no
\* context and no open connection
FailedConnect ==
    /\ cev.kind = "return" /\ cev.op = "connect" /\ cev.out = "raised"
    /\ cev.fresh /\ cev.alone

\* C11: after connect_to_server has raised, in the transport or in initialize(), the
\* client holds no open connection, session refers to none and the exit stack holds none
\* of the contexts the call entered.
C11_Claim ==
    FailedConnect => /\ LiveConns = {}
                     /\ session \notin LiveConns
                     /\ exit_stack = <<>>

\* the state Connected: the session of the client runs on an open connection and has
\* completed its handshake
Connected == session /= None /\ session \in LiveConns /\ conns[session].init

\* C12: get_tools and run_tool call into the session exactly when the client is Connected;
\* in every other state they fail with the not-connected ValueError.
C12_Claim ==
    (cev.kind = "return" /\ cev.op \in SessionOps)
    => (cev.out = "session_called") = Connected

\* the step completed an aclose() made by itself on a Connected client
ClosedFromConnected ==
    /\ cev.kind = "return" /\ cev.op = "aclose" /\ cev.alone
    /\ cev.after.op \in {"connect", "update"} /\ cev.after.out = "connected"

\* C13: after aclose() on a Connected client has returned, no connection is open, the exit
\* stack is empty and session is None.
C13_Claim ==
    ClosedFromConnected => LiveConns = {} /\ exit_stack = <<>> /\ session = None

\* C14: at no time are two underlying connections of the client open.
C14_Claim == Cardinality(LiveConns) <= 1

\* C15: when a connect_to_server call is over, whether it returned or raised, the recorded
\* target is the one the call asked for: server_type, server_command_or_server_url and,
\* for a stdio target, stdio_server_key.
C15_Claim ==
    (cev.kind = "return" /\ cev.op = "connect" /\ cev.alone)
    => /\ server_type = cev.target.type
       /\ server_command_or_server_url = cev.target.addr
       /\ cev.target.type = "stdio" => stdio_server_key = cev.target.key

(* ------------------------- supervisor claims, ctd. -------------------- *)
\* the key is in no part of the configuration, or it is internal_mock and not enabled
NotEligibleKey(k) == k \notin all_managed_keys \/ (k = "internal_mock" /\ ~enabled)

\* C16: start_server for a key that is unknown to the configuration, or for internal_mock
\* while it is not enabled, returns NotEligible and changes neither the registry nor the
\* recorded start attempts nor any process.
C16_Claim ==
    [][ (ev'.kind = "start_begin" /\ NotEligibleKey(ev'.key))
        => /\ ev'.out = "NotEligible"
           /\ UNCHANGED <<server_processes, last_start_attempt_times, procs>> ]_vars

\* C17: a stop_server call that finds a live process for its key leaves the registry entry
\* of that key None on every path: the process exits within the timeout, it is killed
\* after the timeout, terminating it raises, or the forced termination raises.
C17_ClearsHandle ==
    [][ \A k \in Keys :
            (ev'.kind \in StopKinds /\ k \in ev'.stops /\ HasLiveHandle(k))
            => /\ ev'.path \in StopPaths
               /\ k \in DOMAIN server_processes'
               /\ server_processes'[k] = None ]_vars

\* a stop_server call found a live process, the forced termination raised, and the entry
\* is None
C17_Witness ==
    /\ ev.kind = "stop_server" /\ ev.preLive /\ ev.path = "kill_error"
    /\ GetProcess(ev.key) = None

\* C18 as stated: no stop_server call raises to its caller, and neither stop_all_servers
\* nor sync_server_states sees an exception from a stop.
C18_Claim == ev.kind \in StopKinds \cup {"stop_all_raise"} => ev.out /= "raised"

\* the outcomes a start_server call ends with
StartReturns == {"AlreadyRunning", "NotEligible", "Throttled", "SpawnError", "raised",
                 "Started", "StartupFailed"}

\* C19: restart_server(k) runs stop_server(k) first, which leaves no live handle for k,
\* then sleeps for the settle delay, then runs start_server(k), and ends with the outcome
\* of that start_server call; the start does not begin before the stop is over and the
\* settle delay has passed.
C19_Restart ==
    [][ /\ \A c \in Callers :
            /\ (calls[c].pc /= "restart_settle" /\ calls'[c].pc = "restart_settle")
               => /\ ev'.kind = "stop_server" /\ ev'.ctx = "restart_server"
                  /\ ev'.key = calls'[c].key /\ ev'.out \in {"Stopped", "NotRunning"}
                  /\ \A k \in Keys : k = calls'[c].key => ~HasLiveHandle(k)'
                  /\ calls'[c].sleep = settle_delay
            /\ (calls[c].pc = "restart_settle" /\ calls'[c] /= calls[c])
               => \/ /\ calls'[c] = [calls[c] EXCEPT !.sleep = @ - 1]
                     /\ calls[c].sleep > 0 /\ ev'.kind = "none"
                  \/ /\ calls[c].sleep = 0
                     /\ ev'.kind = "start_begin" /\ ev'.ctx = "restart_server"
                     /\ ev'.key = calls[c].key
            /\ (calls[c].op = "restart_server" /\ calls'[c].pc = "idle")
               => /\ ev'.kind \in {"start_begin", "start_probe"}
                  /\ ev'.ctx = "restart_server" /\ ev'.key = calls[c].key
                  /\ ev'.out \in StartReturns
        /\ (ev'.kind = "start_begin" /\ ev'.ctx = "restart_server")
           => \E c \in Callers : /\ calls[c].pc = "restart_settle" /\ calls[c].sleep = 0
                                  /\ calls[c].key = ev'.key ]_vars

\* restart_server has stopped a process and, after the delay, spawned the next one
C19_Witness ==
    /\ ev.kind = "start_begin" /\ ev.ctx = "restart_server" /\ ev.out = "Spawned"
    /\ \E p \in Pids : procs[p].key = ev.key /\ procs[p].state = "exited"

\* C20 as stated: is_running(k) is true exactly when a live process is registered for k,
\* except that it is true for the targets the manager runs no process for ("external" and
\* the keys of mcpServers); for a key that is neither internal_mock nor external nor a key
\* of mcpServers it is not true.
C20_Claim ==
    \A k \in Keys \cup {"external"} :
        is_running(k) = IF k = "external" \/ k \in mcpServers THEN TRUE
                        ELSE IF k = "internal_mock" THEN HasLiveHandle(k)
                        ELSE FALSE

\* C22 as stated: for every identifier every live child process the supervisor has spawned
\* is the one the registry entry of the identifier refers to, so that there is at most one.
C22_Claim == \A k \in Keys : LiveProcs(k) \subseteq {GetProcess(k)}

\* C23: when a stop_server call for the key was made during the grace wait of a
\* start_server call, the probe of that call does not put its process (back) into the
\* registry, and unless a later start has registered another process the key has no live
\* handle once the start has returned.
C23_StopWins ==
    [][ \A c \in Callers, k \in Keys :
            (calls[c].pc = "grace" /\ calls[c].key = k /\ calls[c].stopped
             /\ ev'.kind = "start_probe" /\ calls'[c].pc = "idle")
            => /\ GetProcess(k)' /= calls[c].process
               /\ GetProcess(k) \in {None, calls[c].process} => ~HasLiveHandle(k)' ]_vars

\* the stop left the process alive (terminating it raised), and the probe that found it
\* alive has returned with the registry entry still None
C23_Witness ==
    /\ ev.kind = "start_probe" /\ ev.stopped /\ ev.out = "Started"
    /\ GetProcess(ev.key) = None

\* C24: within a pass of sync_server_states the start tasks begin only when every stop
\* task of the pass has run and the settle delay after them is over: a pass with stop
\* tasks gathers them first, each leaves its key without a live handle, and no start_server
\* call of a pass begins while the pass is at another point than the gather of its starts.
C24_StopsFirst ==
    [][ /\ \A c \in Callers :
            /\ (calls[c].pc /= "sync_start_gather" /\ calls'[c].pc = "sync_start_gather")
               => \/ ev'.kind = "sync_scan" /\ ev'.stops = {}
                  \/ calls[c].pc = "sync_settle" /\ calls[c].sleep = 0
            /\ (calls[c].pc /= "sync_settle" /\ calls'[c].pc = "sync_settle")
               => /\ calls[c].pc = "sync_stop_gather"
                  /\ ev'.kind = "sync_stops" /\ ev'.stops = calls[c].stop_tasks
                  /\ \A k \in Keys : k \in calls[c].stop_tasks => ~HasLiveHandle(k)'
                  /\ calls'[c].sleep = settle_delay
        /\ (ev'.kind = "start_begin" /\ ev'.ctx = "sync_server_states")
           => \E c \in Callers : /\ calls[c].pc = "sync_start_gather"
                                  /\ ev'.key \in calls[c].start_tasks ]_vars

\* a pass that had a stop task and a start task has begun its start
C24_Witness ==
    /\ ev.kind = "start_begin" /\ ev.ctx = "sync_server_states" /\ ev.out = "Spawned"
    /\ \E c \in Callers : calls[c].pc = "grace" /\ calls[c].stop_tasks /= {}

\* C25 as stated: no pass of server_check_loop is cut short by the failure of one of its
\* starts or stops: every pass runs on to the end of sync_server_states and to
\* update_server_status_ui.
C25_Claim == loop.last /= "raised"

\* a launch of the pass failed
LaunchFailed == ev.ctx = "sync_server_states" /\ ev.out \in {"SpawnError", "StartupFailed"}

\* C26 as stated: after a pass that raised the loop runs another pass; an enabled
\* internal_mock that is not running gets a live handle unless a launch fails or it is
\* disabled; a disabled internal_mock whose process is running is stopped unless it is
\* enabled again.
C26_Claim ==
    /\ (loop.last = "raised") ~> (ev.kind = "sync_scan")
    /\ (enabled /\ ~HasLiveHandle("internal_mock") /\ HasUnborn)
          ~> (HasLiveHandle("internal_mock") \/ ~enabled \/ LaunchFailed)
    /\ (~enabled /\ LiveProcs("internal_mock") /= {})
          ~> (LiveProcs("internal_mock") = {} \/ enabled)

\* C21 as stated: once on_disconnect has run (the client closed if it had a session, then
\* stop_all_servers called and over), no child process the supervisor has spawned is
\* alive, then or later.
C21_Claim == disconnect = "done" => \A p \in Pids : ~Alive(p)

\* the desired active target resolves and is not the one the session manager is bound to
TargetDiffers ==
    /\ ActiveTarget.type /= "None"
    /\ \/ server_type /= ActiveTarget.type
       \/ server_command_or_server_url /= ActiveTarget.addr

\* a rebind has been requested: update_mcp_client is running or has just returned
RebindRequested ==
    \/ \E h \in ClientCallers : cl[h].pc /= "idle" /\ cl[h].op \in {"update", "route_change"}
    \/ cev.kind = "return" /\ cev.op \in {"update", "route_change"} /\ cev.out /= "no_rebind"

\* C27: every reconciliation pass compares the desired active target with the session
\* manager's current one and requests a rebind if they differ by kind or address: a pass of
\* server_check_loop that ends while they differ has a rebind requested, and a route
\* change that finds them different calls update_mcp_client
C27_Claim ==
    [][ /\ (loop.pc = "pass" /\ loop'.pc = "sleep" /\ TargetDiffers') => RebindRequested'
        /\ (cev'.op = "route_change" /\ cev' /= cev /\ cev'.kind \in {"call", "return"}
              /\ TargetDiffers)
              => cev'.out /= "no_rebind" ]_vars

\* the call of h is a trigger whose desired target has no address and no command
Unresolved(h) == /\ cl[h].pc /= "idle"
                 /\ cl[h].op \in {"update", "route_change"}
                 /\ cl[h].target.addr = "None"

\* C28: if the desired active target does not resolve to an address or a command, no rebind
\* happens and the session is left exactly as it was: no step of such a trigger changes the
\* session, its connections, its exit stack or the bound target fields, whether the trigger
\* is over at once or after an await
C28_Claim ==
    [][ /\ (\E h \in ClientCallers : Unresolved(h) /\ cl'[h] /= cl[h]) => mcpState' = mcpState
        /\ (cev' /= cev /\ cev'.kind = "return" /\ cev'.atOnce /\ cev'.op \in {"update", "route_change"}
              /\ ActiveTarget.addr = "None")
              => mcpState' = mcpState /\ cev'.out \in {"invalid", "raised", "no_command", "no_rebind", "suppressed"} ]_vars

\* the bound transport kind and target identity (URL for sse, key for stdio) are the
\* desired ones
BoundIsDesired ==
    /\ get_active_server_type /= "None"
    /\ server_type = get_active_server_type
    /\ get_active_server_type = "sse" => server_command_or_server_url = get_active_mcp_url
    /\ get_active_server_type = "stdio" => stdio_server_key = active_server_key

\* the step is the first one of a route_change call
RouteChangeBegins ==
    /\ cev'.op = "route_change"
    /\ cev'.kind \in {"call", "return"}
    /\ \A h \in ClientCallers : cl[h].pc = "idle"

\* C29: a route change, on whatever route, that finds a connected session whose bound
\* transport kind and target identity are the desired ones returns without calling
\* update_mcp_client: nothing is closed and nothing is connected
C29_NoRebind ==
    [][ (RouteChangeBegins /\ Connected /\ BoundIsDesired)
          => /\ cev'.kind = "return" /\ cev'.out = "no_rebind"
             /\ mcpState' = mcpState ]_vars

C29_Witness == /\ cev.kind = "return" /\ cev.op = "route_change" /\ cev.out = "no_rebind"
               /\ Connected /\ BoundIsDesired /\ server_type = "stdio"

\* the trigger is over without an exception
TriggerSucceeded == /\ cev.kind = "return" /\ cev.op = "route_change"
                    /\ cev.out \in {"connected", "no_rebind", "suppressed"}

\* C30: whichever route the trigger carries, a route change that finds the desired kind,
\* or the desired URL or command, different from the bound one performs a rebind, and after
\* a trigger that completed successfully the session manager is bound to the desired target
C30_Claim ==
    [][ /\ (RouteChangeBegins /\ TargetDiffers /\ ActiveTarget.addr /= "None")
              => ~(cev'.kind = "return" /\ cev'.out \in {"no_rebind", "suppressed"})
        /\ (cev' /= cev /\ TriggerSucceeded' /\ cev'.target.addr /= "None")
              => /\ server_type' = cev'.target.type
                 /\ server_command_or_server_url' = cev'.target.addr ]_vars

\* a connect made for a rebind by route_change failed: the transport or initialize raised
RebindConnectFailed == /\ cev.kind = "return" /\ cev.op = "route_change"
                       /\ cev.out = "raised" /\ ~cev.atOnce

\* C31: a connect failure during a rebind triggered by a route change does not fail the
\* interaction: route_change still completes and installs a view, the home view or the
\* settings view
C31_Claim == RebindConnectFailed => cev.view \in {"home", "settings"}

\* C32: a pass uses one snapshot of the configuration for its whole duration: a
\* start_server call made by a pass whose scan found the server enabled acts on that
\* enablement, even if the switch was flipped while the pass was suspended
C32_Claim ==
    (ev.kind = "start_begin" /\ ev.ctx = "sync_server_states" /\ ev.mustStart)
        => ev.preEnabled /\ ev.out /= "NotEligible"

\* C33: only internal_mock is subject to the process lifecycle: for every other identifier,
\* whether or not it is an mcpServers entry, no start_server, restart_server or pass spawns a
\* process or adds a registry entry, and a stop_server call on it changes nothing
C33_OnlyBuiltin ==
    [][ \A k \in Keys \ {"internal_mock"} :
            /\ k \notin DOMAIN server_processes'
            /\ \A p \in Pids : procs'[p].key /= k
            /\ (ev'.kind = "stop_server" /\ ev'.key = k)
                  => server_processes' = server_processes /\ procs' = procs ]_vars

C33_Witness == /\ ev.kind = "start_begin" /\ ev.key = "srv1" /\ ev.ctx = "restart_server"
               /\ "srv1" \in mcpServers /\ passDone

\* C34: every stop_server call eventually returns, also when the forced termination does
\* not end the process: a call that waits for the child is eventually out of its wait
C34_Claim == \A c \in Callers : (calls[c].pc = "stop_wait") ~> (calls[c].pc /= "stop_wait")

\* C35: get_config always returns the current merged view, the content of the file laid
\* over the original defaults, so that a nested entry that is neither in the file nor in the
\* original defaults is not in the result; and default_config is never modified by reading
C35_Claim ==
    /\ got.kind = "merged" => got.value = Overlay(DefaultConfig, config_file)
    /\ default_config = DefaultConfig

\* C36: the probe start_server makes after its grace wait clears only the handle the call
\* registered itself: a registry entry that holds another, live process is left as it is
C36_Claim ==
    [][ \A k \in Keys :
            (/\ ev'.kind = "start_probe" /\ ev'.key = k
             /\ HasLiveHandle(k) /\ GetProcess(k) /= ev'.proc)
                => GetProcess(k)' = GetProcess(k) ]_vars

\* C37: the assertion of update_mcp_client holds whenever it is reached: when route_change
\* calls update_mcp_client with the active server type sse, get_active_mcp_url() returns a
\* URL and the call does not end with the AssertionError
C37_Claim ==
    [][ (RouteChangeBegins /\ NeedsRebind /\ get_active_server_type = "sse")
            => get_active_mcp_url /= "None" /\ ~(cev'.atOnce /\ cev'.out = "raised") ]_vars
\* the inner start_server of a restart_server call that found the identifier running
\* takes its first step, with the identifier enabled and its last recorded start attempt
\* less than min_restart_interval old
ThrottledRestart(c) ==
    /\ calls[c].pc = "restart_settle"
    /\ calls[c].stoppedProc /= None
    /\ ev'.kind = "start_begin" /\ ev'.ctx = "restart_server"
    /\ calls'[c].pc /= "restart_settle"
    /\ ev'.preEnabled /\ ev'.preThrottled

\* C38: restart_server on a running, enabled identifier whose last recorded start attempt
\* is less than min_restart_interval old when the inner start_server runs stops the
\* process and starts no new one: the start returns False (Throttled), no process is
\* spawned, and the identifier is not running afterwards
C38_Claim ==
    [][ \A c \in Callers : ThrottledRestart(c) =>
            /\ ~Alive(calls[c].stoppedProc)
            /\ ev'.out = "Throttled" /\ ev'.proc = None
            /\ procs' = procs
            /\ \A k \in Keys : k = calls[c].key => ~is_running(k)' ]_vars

\* the entry of k still holds a process that has exited
StaleEntry(k) == GetProcess(k) /= None /\ ~Alive(GetProcess(k))

\* C39: is_running("internal_mock") is true if and only if internal_mock is in
\* get_running_servers(), in every reachable state; while the entry holds a process that
\* has exited, both report it as not running
C39_Agree ==
    /\ is_running("internal_mock") <=> "internal_mock" \in get_running_servers
    /\ StaleEntry("internal_mock") =>
           ~is_running("internal_mock") /\ "internal_mock" \notin get_running_servers

\* a process has exited on its own, its entry is still in server_processes, no call is
\* in flight, and both queries report internal_mock as not running
C39_Witness ==
    /\ StaleEntry("internal_mock")
    /\ procs[GetProcess("internal_mock")].state = "exited"
    /\ ~is_running("internal_mock") /\ "internal_mock" \notin get_running_servers
    /\ \A c \in Callers : calls[c].pc = "idle"

====
